---- MODULE Spec2Model ----
(***************************************************************************)
(* Model of src/src/googmodule.ts: the transformer that converts           *)
(* TypeScript's CommonJS emit into goog.module / goog.require form, and    *)
(* the onSubstituteNode hook that strips ".default" from goog: imports.    *)
(*                                                                         *)
(* AST nodes are records with a "kind" field and the fields the TypeScript *)
(* node of that kind carries.  A field a node does not have is absent from *)
(* the record; reading it yields Undefined, and reading a property of      *)
(* Undefined is the TypeError the JavaScript runtime raises.               *)
(***************************************************************************)
EXTENDS Integers, Sequences, FiniteSets, TLC

VARIABLES
    host,                      \* GoogModuleProcessorHost flags
    pc,                        \* position inside the transformer (sf) => {...}
    sf,                        \* statements of the source file being rewritten
    idx,                       \* index of the next statement of sf to visit
    stmts,                     \* the output statement list
    moduleVarCounter,          \* per-unit counter of nextModuleVar
    namespaceToModuleVarName,  \* per-unit map namespace -> identifier
    providedCalls,             \* log of modulesManifest.addModule calls
    referencedCalls,           \* log of modulesManifest.addReferencedModule calls
    headerStmts,               \* the prologue built for the unit
    insertionIdx,              \* where the prologue was spliced in
    hookPc,                    \* position of one onSubstituteNode call
    hookIn,                    \* its argument (node and type checker answer)
    hookOut                    \* its result

unitVars == <<host, pc, sf, idx, stmts, moduleVarCounter, namespaceToModuleVarName,
              providedCalls, referencedCalls, headerStmts, insertionIdx>>
hookVars == <<hookPc, hookIn, hookOut>>
vars == <<host, pc, sf, idx, stmts, moduleVarCounter, namespaceToModuleVarName,
          providedCalls, referencedCalls, headerStmts, insertionIdx,
          hookPc, hookIn, hookOut>>

(***************************************************************************)
(* Bounds                                                                  *)
(***************************************************************************)
MaxStmts == 3

(***************************************************************************)
(* JavaScript values and string helpers                                    *)
(***************************************************************************)
Undefined == [kind |-> "undefined"]

Has(n, f) == f \in DOMAIN n

Prop(n, f) == IF Has(n, f) THEN n[f] ELSE Undefined

StartsWith(s, p) == Len(s) >= Len(p) /\ SubSeq(s, 1, Len(p)) = p

EndsWith(s, p) == Len(s) >= Len(p) /\ SubSeq(s, Len(s) - Len(p) + 1, Len(s)) = p

\* s.substring(n) for 0 <= n
Substring(s, n) == IF n >= Len(s) THEN "" ELSE SubSeq(s, n + 1, Len(s))

\* s.indexOf(p) !== -1
Contains(s, p) == \E i \in 1..(Len(s) - Len(p) + 1) : SubSeq(s, i, i + Len(p) - 1) = p

\* s.lastIndexOf('/'), 0-based, -1 when absent
LastIndexOfSlash(s) ==
    LET hits == {i \in 1..Len(s) : SubSeq(s, i, i) = "/"}
    IN  IF hits = {} THEN -1 ELSE (CHOOSE i \in hits : \A j \in hits : j <= i) - 1

\* s.substr(n): a negative n counts from the end of the string
Substr(s, n) ==
    IF n < 0 THEN (IF -n >= Len(s) THEN s ELSE SubSeq(s, Len(s) + n + 1, Len(s)))
    ELSE Substring(s, n)

\* s.replace(/\//g, '.')
RECURSIVE SlashesToDots(_)
SlashesToDots(s) ==
    IF s = "" THEN ""
    ELSE (IF Head(s) = "/" THEN "." ELSE Head(s)) \o SlashesToDots(Tail(s))

\* s.replace(TS_EXTENSIONS, ''): the leftmost match of the alternation wins
StripTsExtension(s) ==
    IF EndsWith(s, ".d.ts") THEN SubSeq(s, 1, Len(s) - 5)
    ELSE IF EndsWith(s, ".ts") \/ EndsWith(s, ".js") THEN SubSeq(s, 1, Len(s) - 3)
    ELSE IF EndsWith(s, ".jsx") \/ EndsWith(s, ".tsx") THEN SubSeq(s, 1, Len(s) - 4)
    ELSE s

(***************************************************************************)
(* AST node constructors                                                   *)
(***************************************************************************)
Id(t) == [kind |-> "Identifier", text |-> t]

Str(t) == [kind |-> "StringLiteral", text |-> t]

Call(callee, args) == [kind |-> "CallExpression", expression |-> callee, arguments |-> args]

PropAccess(e, n) == [kind |-> "PropertyAccessExpression", expression |-> e, name |-> Id(n)]

Binary(l, op, r) == [kind |-> "BinaryExpression", left |-> l, operatorToken |-> op, right |-> r]

ObjLit(props) == [kind |-> "ObjectLiteralExpression", properties |-> props]

PropAssign(n, init) == [kind |-> "PropertyAssignment", name |-> Id(n), initializer |-> init]

ExprStmt(e) == [kind |-> "ExpressionStatement", expression |-> e]

VarDecl(name, init) == [kind |-> "VariableDeclaration", name |-> name, initializer |-> init]

VarStmt(decls) == [kind |-> "VariableStatement", declarationList |-> [declarations |-> decls]]

\* ts.setOriginalNode(ts.setTextRange(n, o), o)
WithOriginal(n, o) == [f \in DOMAIN n \cup {"original"} |-> IF f = "original" THEN o ELSE n[f]]

(***************************************************************************)
(* The host (GoogModuleProcessorHost) and the TypeScript module resolver   *)
(***************************************************************************)
FileName == "/src/u.ts"

RootDir == "/src"

\* a path without extension, taken relative to the root
RelativeToRoot(noExt) ==
    IF StartsWith(noExt, "./") THEN Substring(noExt, 2)
    ELSE IF StartsWith(noExt, RootDir \o "/") THEN Substring(noExt, Len(RootDir) + 1)
    ELSE noExt

\* host.pathToModuleName(context, importPath): strips the extension, resolves
\* './x' and root-absolute paths against the root, and turns '/' into '.'
pathToModuleName(context, importPath) ==
    SlashesToDots(RelativeToRoot(StripTsExtension(importPath)))

\* host.fileNameToModuleId(fileName): the file name relative to the root
fileNameToModuleId(fileName) ==
    IF StartsWith(fileName, RootDir \o "/") THEN Substring(fileName, Len(RootDir) + 1)
    ELSE fileName

\* ts.resolveModuleName(imported, fileName, options, host).resolvedModule:
\* the file system holds /src/a.ts, /src/b/index.ts and node_modules/tslib
resolveModuleName(imported, fileName) ==
    CASE imported = "./a"   -> [resolved |-> TRUE, resolvedFileName |-> "/src/a.ts"]
      [] imported = "./b"   -> [resolved |-> TRUE, resolvedFileName |-> "/src/b/index.ts"]
      [] imported = "tslib" -> [resolved |-> TRUE,
                                resolvedFileName |-> "/src/node_modules/tslib/tslib.d.ts"]
      [] OTHER              -> [resolved |-> FALSE, resolvedFileName |-> ""]

\* path.dirname(p)
PathDirname(p) ==
    LET i == LastIndexOfSlash(p)
    IN  IF i < 0 THEN "." ELSE IF i = 0 THEN "/" ELSE SubSeq(p, 1, i)

\* path.relative(from, to) for a target below the directory `from`
PathRelative(from, to) ==
    IF StartsWith(to, from \o "/") THEN Substring(to, Len(from) + 1) ELSE to

(***************************************************************************)
(* Statement classifiers, googmodule.ts lines 42-137                       *)
(***************************************************************************)
createSingleQuoteStringLiteral(text) ==
    [kind |-> "StringLiteral", text |-> text, singleQuote |-> TRUE]

isPropertyAccess(node, parent, child) ==
    /\ node.kind = "PropertyAccessExpression"
    /\ node.expression.kind = "Identifier"
    /\ node.expression.text = parent
    /\ node.name.text = child

isModuleExportsAssignment(expr) ==
    /\ expr.expression.kind = "BinaryExpression"
    /\ expr.expression.operatorToken = "EqualsToken"
    /\ isPropertyAccess(expr.expression.left, "module", "exports")

isExportsAssignment(expr) ==
    /\ expr.expression.kind = "BinaryExpression"
    /\ expr.expression.operatorToken = "EqualsToken"
    /\ expr.expression.left.kind = "Identifier"
    /\ expr.expression.left.text = "exports"

isUseStrict(node) ==
    /\ node.kind = "ExpressionStatement"
    /\ node.expression.kind = "StringLiteral"
    /\ node.expression.text = "use strict"

isEsModuleProperty(stmt) ==
    LET expr == stmt.expression IN
    /\ expr.kind = "CallExpression"
    /\ isPropertyAccess(expr.expression, "Object", "defineProperty")
    /\ Len(expr.arguments) = 3
    /\ LET exp == expr.arguments[1]
           esM == expr.arguments[2]
           val == expr.arguments[3]
       IN  /\ exp.kind = "Identifier" /\ exp.text = "exports"
           /\ esM.kind = "StringLiteral" /\ esM.text = "__esModule"
           /\ val.kind = "ObjectLiteralExpression" /\ Len(val.properties) = 1
           /\ LET prop == val.properties[1]
              IN  /\ prop.kind = "PropertyAssignment"
                  /\ Has(prop, "name")
                  /\ prop.name.kind = "Identifier"
                  /\ prop.name.text = "value"
                  /\ prop.initializer.kind = "TrueKeyword"

\* The result of a function returning string|null that may raise a TypeError
Threw == [threw |-> TRUE, isNull |-> FALSE, text |-> ""]

Null == [threw |-> FALSE, isNull |-> TRUE, text |-> ""]

Text(t) == [threw |-> FALSE, isNull |-> FALSE, text |-> t]

\* `call` is whatever the caller cast to ts.CallExpression; reading a
\* property of an undefined value raises
extractRequire(call) ==
    IF call = Undefined THEN Threw
    ELSE IF ~Has(call, "expression") THEN Threw
    ELSE IF call.expression.kind # "Identifier" THEN Null
    ELSE IF call.expression.text # "require" THEN Null
    ELSE IF ~Has(call, "arguments") THEN Threw
    ELSE IF Len(call.arguments) # 1 THEN Null
    ELSE IF call.arguments[1].kind # "StringLiteral" THEN Null
    ELSE Text(call.arguments[1].text)

createGoogCall(methodName, literal) ==
    Call(PropAccess(Id("goog"), methodName), <<literal>>)

extractGoogNamespaceImport(tsImport) ==
    IF StartsWith(tsImport, "goog:") THEN Text(Substring(tsImport, Len("goog:"))) ELSE Null

(***************************************************************************)
(* Import path resolution, googmodule.ts lines 139-183                     *)
(***************************************************************************)
\* lines 152-159, for a module that was resolved
expandIndexShorthand(fileName, imported, requestedModule, resolvedModule) ==
    IF /\ ~Contains(resolvedModule, "node_modules")
       /\ Substr(requestedModule, LastIndexOfSlash(requestedModule)) #
              Substr(resolvedModule, LastIndexOfSlash(resolvedModule))
    THEN "./" \o PathRelative(PathDirname(fileName), resolvedModule)
    ELSE imported

resolveIndexShorthand(fileName, imported) ==
    IF ~resolveModuleName(imported, fileName).resolved THEN imported
    ELSE expandIndexShorthand(fileName, imported, StripTsExtension(imported),
             StripTsExtension(resolveModuleName(imported, fileName).resolvedFileName))

importPathToGoogNamespace(h, fileName, tsImport) ==
    IF ~extractGoogNamespaceImport(tsImport).isNull
    THEN createSingleQuoteStringLiteral(extractGoogNamespaceImport(tsImport).text)
    ELSE IF h.convertIndexImportShorthand
    THEN createSingleQuoteStringLiteral(
             pathToModuleName(fileName, resolveIndexShorthand(fileName, tsImport)))
    ELSE createSingleQuoteStringLiteral(pathToModuleName(fileName, tsImport))

(***************************************************************************)
(* Statement rewriting, googmodule.ts lines 185-200 and 255-394            *)
(***************************************************************************)
\* Variant: a require(...) on the right-hand side is turned into goog.require
rewriteModuleExportsAssignment_GoogRhs(expr) ==
    IF expr.expression.kind # "BinaryExpression" THEN [isNull |-> TRUE, stmt |-> Undefined]
    ELSE IF expr.expression.operatorToken # "EqualsToken" THEN [isNull |-> TRUE, stmt |-> Undefined]
    ELSE IF ~isPropertyAccess(expr.expression.left, "module", "exports")
         THEN [isNull |-> TRUE, stmt |-> Undefined]
    ELSE LET right == expr.expression.right
             imported == extractRequire(right)
             newRight == IF right.kind = "CallExpression" /\ ~imported.threw /\ ~imported.isNull
                         THEN createGoogCall("require", right.arguments[1])
                         ELSE right
         IN  [isNull |-> FALSE,
              stmt |-> WithOriginal(ExprStmt(Binary(Id("exports"), "EqualsToken", newRight)),
                                    expr)]

rewriteModuleExportsAssignment(expr) ==
    IF expr.expression.kind # "BinaryExpression" THEN [isNull |-> TRUE, stmt |-> Undefined]
    ELSE IF expr.expression.operatorToken # "EqualsToken" THEN [isNull |-> TRUE, stmt |-> Undefined]
    ELSE IF ~isPropertyAccess(expr.expression.left, "module", "exports")
         THEN [isNull |-> TRUE, stmt |-> Undefined]
    ELSE [isNull |-> FALSE,
          stmt |-> WithOriginal(
                       ExprStmt(Binary(Id("exports"), "EqualsToken", expr.expression.right)),
                       expr)]

\* Variant: the counter is read but not advanced
nextModuleVar_NoAdvance(n) == [name |-> "tsickle_module_" \o ToString(n) \o "_", counter |-> n]

\* nextModuleVar() with moduleVarCounter = n: the name it returns and the
\* counter it leaves behind
nextModuleVar(n) == [name |-> "tsickle_module_" \o ToString(n) \o "_", counter |-> n + 1]

createNotEmittedStatement(original) == [kind |-> "NotEmittedStatement", original |-> original]

\* namespaceToModuleVarName.set(ns, ident)
MapSet(map, ns, ident) ==
    [n \in DOMAIN map \cup {ns} |-> IF n = ns THEN ident ELSE map[n]]

EmptyMap == [n \in {} |-> Id("")]

NotARequire(map) ==
    [threw |-> FALSE, isNull |-> TRUE, stmt |-> Undefined, map |-> map, refs |-> <<>>]

RequireThrew(map) ==
    [threw |-> TRUE, isNull |-> FALSE, stmt |-> Undefined, map |-> map, refs |-> <<>>]

\* the statement of lines 290-293 for the initializer chosen at lines 284-289
requireStatement(original, newIdent, initializer) ==
    WithOriginal(VarStmt(<<VarDecl(newIdent, initializer)>>), original)

\* Variant: the binding table is keyed by the import URL, not the namespace
bindGoogRequire_KeyedByUrl(original, newIdent, map, fileName, importedUrl, imp) ==
    IF importedUrl \notin DOMAIN map
    THEN [threw |-> FALSE, isNull |-> FALSE,
          stmt  |-> requireStatement(original, newIdent, createGoogCall("require", imp)),
          map   |-> MapSet(map, importedUrl, newIdent),
          refs  |-> << <<fileName, imp.text>> >>]
    ELSE [threw |-> FALSE, isNull |-> FALSE,
          stmt  |-> requireStatement(original, newIdent, map[importedUrl]),
          map   |-> map,
          refs  |-> << <<fileName, imp.text>> >>]

\* Variant: the namespace is registered only when its require is emitted
bindGoogRequire_RegisterOnce(original, newIdent, map, fileName, importedUrl, imp) ==
    IF imp.text \notin DOMAIN map
    THEN [threw |-> FALSE, isNull |-> FALSE,
          stmt  |-> requireStatement(original, newIdent, createGoogCall("require", imp)),
          map   |-> MapSet(map, imp.text, newIdent),
          refs  |-> << <<fileName, imp.text>> >>]
    ELSE [threw |-> FALSE, isNull |-> FALSE,
          stmt  |-> requireStatement(original, newIdent, map[imp.text]),
          map   |-> map,
          refs  |-> <<>>]

\* Variant: every import of a namespace takes over its binding table entry
bindGoogRequire_Overwrite(original, newIdent, map, fileName, importedUrl, imp) ==
    IF imp.text \notin DOMAIN map
    THEN [threw |-> FALSE, isNull |-> FALSE,
          stmt  |-> requireStatement(original, newIdent, createGoogCall("require", imp)),
          map   |-> MapSet(map, imp.text, newIdent),
          refs  |-> << <<fileName, imp.text>> >>]
    ELSE [threw |-> FALSE, isNull |-> FALSE,
          stmt  |-> requireStatement(original, newIdent, map[imp.text]),
          map   |-> MapSet(map, imp.text, newIdent),
          refs  |-> << <<fileName, imp.text>> >>]

\* lines 281-293 of maybeCreateGoogRequire, for the namespace literal imp of
\* the import URL: the namespace is registered, then looked up in the
\* binding table.  Result: threw (a TypeError escaped), isNull (not a
\* CommonJS require), stmt (the new statement), map (the binding table
\* afterwards) and refs (the addReferencedModule calls made)
bindGoogRequire(original, newIdent, map, fileName, importedUrl, imp) ==
    IF imp.text \notin DOMAIN map
    THEN [threw |-> FALSE, isNull |-> FALSE,
          stmt  |-> requireStatement(original, newIdent, createGoogCall("require", imp)),
          map   |-> MapSet(map, imp.text, newIdent),
          refs  |-> << <<fileName, imp.text>> >>]
    ELSE [threw |-> FALSE, isNull |-> FALSE,
          stmt  |-> requireStatement(original, newIdent, map[imp.text]),
          map   |-> map,
          refs  |-> << <<fileName, imp.text>> >>]

\* lines 279-293, for the answer importedUrl of extractRequire
createGoogRequireFor(importedUrl, original, newIdent, map, h, fileName) ==
    IF importedUrl.threw THEN RequireThrew(map)
    ELSE IF importedUrl.isNull \/ importedUrl.text = "" THEN NotARequire(map)
    ELSE bindGoogRequire(original, newIdent, map, fileName, importedUrl.text,
                         importPathToGoogNamespace(h, fileName, importedUrl.text))

maybeCreateGoogRequire(original, call, newIdent, map, h, fileName) ==
    createGoogRequireFor(extractRequire(call), original, newIdent, map, h, fileName)

\* Variant: the specifier is not compared with 'tslib'
maybeRewriteRequireTslib_AnyRequire(stmt) ==
    IF stmt.kind # "ExpressionStatement" THEN stmt
    ELSE IF stmt.expression.kind # "CallExpression" THEN stmt
    ELSE LET callExpr == stmt.expression IN
         IF callExpr.expression.kind # "Identifier" \/ callExpr.expression.text # "require"
         THEN stmt
         ELSE IF Len(callExpr.arguments) # 1 THEN stmt
         ELSE LET arg == callExpr.arguments[1] IN
              IF arg.kind # "StringLiteral" THEN stmt
              ELSE WithOriginal(ExprStmt(createGoogCall("require", arg)), stmt)

maybeRewriteRequireTslib(stmt) ==
    IF stmt.kind # "ExpressionStatement" THEN stmt
    ELSE IF stmt.expression.kind # "CallExpression" THEN stmt
    ELSE LET callExpr == stmt.expression IN
         IF callExpr.expression.kind # "Identifier" \/ callExpr.expression.text # "require"
         THEN stmt
         ELSE IF Len(callExpr.arguments) # 1 THEN stmt
         ELSE LET arg == callExpr.arguments[1] IN
              IF arg.kind # "StringLiteral" \/ arg.text # "tslib" THEN stmt
              ELSE WithOriginal(ExprStmt(createGoogCall("require", arg)), stmt)

\* Variant: the wrapper call is pushed before the declaration it refers to
pushRequire_ExportFirst(require, isExportStar, expr, ident) ==
    LET args == IF Len(expr.arguments) > 1 THEN <<ident, expr.arguments[2]>> ELSE <<ident>>
    IN  IF isExportStar THEN <<ExprStmt(Call(expr.expression, args)), require>>
        ELSE <<require>>

\* lines 361-369: the statements pushed for a recognized side-effect import
pushRequire(require, isExportStar, expr, ident) ==
    LET args == IF Len(expr.arguments) > 1 THEN <<ident, expr.arguments[2]>> ELSE <<ident>>
    IN  IF isExportStar THEN <<require, ExprStmt(Call(expr.expression, args))>>
        ELSE <<require>>

\* Result of visiting a statement: threw, out (the statements pushed),
\* counter, map, refs
Pushed(out, counter, map) ==
    [threw |-> FALSE, out |-> out, counter |-> counter, map |-> map, refs |-> <<>>]

VisitThrew(counter, map) ==
    [threw |-> TRUE, out |-> <<>>, counter |-> counter, map |-> map, refs |-> <<>>]

\* lines 354-356
isExportStarCall(expr) ==
    \/ expr.expression.kind = "Identifier" /\ expr.expression.text = "__exportStar"
    \/ expr.expression.kind = "Identifier" /\ expr.expression.text = "__export"

\* lines 349 and 357: the call handed to maybeCreateGoogRequire
requireOperand(expr) ==
    IF isExportStarCall(expr)
    THEN (IF Len(expr.arguments) >= 1 THEN expr.arguments[1] ELSE Undefined)
    ELSE expr

\* lines 360-370, for the answer require of maybeCreateGoogRequire
pushSideEffectRequire(node, ident, counter, map, require) ==
    IF require.threw THEN VisitThrew(counter, map)
    ELSE IF require.isNull THEN Pushed(<<node>>, counter, map)
    ELSE [threw   |-> FALSE,
          out     |-> pushRequire(require.stmt, isExportStarCall(node.expression),
                                  node.expression, ident),
          counter |-> counter,
          map     |-> require.map,
          refs    |-> require.refs]

\* lines 358-370, for the answer fresh of nextModuleVar
visitCallStatement(node, fresh, map, h, fileName) ==
    pushSideEffectRequire(node, Id(fresh.name), fresh.counter, map,
        maybeCreateGoogRequire(node, requireOperand(node.expression), Id(fresh.name),
                               map, h, fileName))

\* lines 341-370, for the answer modExports of rewriteModuleExportsAssignment
visitAfterPragmas(node, modExports, counter, map, h, fileName) ==
    IF ~modExports.isNull THEN Pushed(<<modExports.stmt>>, counter, map)
    ELSE IF node.expression.kind # "CallExpression" THEN Pushed(<<node>>, counter, map)
    ELSE visitCallStatement(node, nextModuleVar(counter), map, h, fileName)

visitExpressionStatement(node, counter, map, h, fileName) ==
    IF isUseStrict(node) \/ isEsModuleProperty(node)
    THEN Pushed(<<createNotEmittedStatement(node)>>, counter, map)
    ELSE visitAfterPragmas(node, rewriteModuleExportsAssignment(node), counter, map,
                           h, fileName)

\* lines 386-388, for the answer require of maybeCreateGoogRequire
pushVarRequire(node, counter, map, require) ==
    IF require.threw THEN VisitThrew(counter, map)
    ELSE IF require.isNull THEN Pushed(<<node>>, counter, map)
    ELSE [threw |-> FALSE, out |-> <<require.stmt>>, counter |-> counter,
          map |-> require.map, refs |-> require.refs]

\* lines 380-388, for the only declaration of the statement
visitSingleDeclaration(node, decl, counter, map, h, fileName) ==
    IF decl.name.kind # "Identifier" THEN Pushed(<<node>>, counter, map)
    ELSE IF ~Has(decl, "initializer") THEN Pushed(<<node>>, counter, map)
    ELSE IF decl.initializer.kind # "CallExpression" THEN Pushed(<<node>>, counter, map)
    ELSE pushVarRequire(node, counter, map,
             maybeCreateGoogRequire(node, decl.initializer, decl.name, map, h, fileName))

visitVariableStatement(node, counter, map, h, fileName) ==
    IF Len(node.declarationList.declarations) # 1 THEN Pushed(<<node>>, counter, map)
    ELSE visitSingleDeclaration(node, node.declarationList.declarations[1], counter, map,
                                h, fileName)

visitTopLevelStatement(node, counter, map, h, fileName) ==
    IF node.kind = "ExpressionStatement"
    THEN visitExpressionStatement(node, counter, map, h, fileName)
    ELSE IF node.kind = "VariableStatement"
    THEN visitVariableStatement(node, counter, map, h, fileName)
    ELSE Pushed(<<node>>, counter, map)

(***************************************************************************)
(* Prologue, googmodule.ts lines 416-466                                   *)
(***************************************************************************)
\* Variant: only module.exports = X counts as an exports assignment
hasExportsAssignment_ModuleOnly(statements) ==
    \E i \in 1..Len(statements) :
        /\ statements[i].kind = "ExpressionStatement"
        /\ isModuleExportsAssignment(statements[i])

hasExportsAssignment(statements) ==
    \E i \in 1..Len(statements) :
        /\ statements[i].kind = "ExpressionStatement"
        /\ (isModuleExportsAssignment(statements[i]) \/ isExportsAssignment(statements[i]))

createHeaderStmts(h, file) ==
    LET moduleName == pathToModuleName("", file.fileName)
        googModule == ExprStmt(createGoogCall("module", createSingleQuoteStringLiteral(moduleName)))
        moduleId   == fileNameToModuleId(file.fileName)
        moduleVarInitializer ==
            Binary(Id("module"), "BarBarToken",
                   ObjLit(<<PropAssign("id", createSingleQuoteStringLiteral(moduleId))>>))
        modAssign  == VarStmt(<<VarDecl(Id("module"), moduleVarInitializer)>>)
        selfAssign == ExprStmt(Binary(Id("module"), "EqualsToken", Id("module")))
        exportsObj == ExprStmt(Binary(Id("exports"), "EqualsToken", ObjLit(<<>>)))
    IN  <<googModule, modAssign>>
        \o (IF ~h.es5Mode THEN <<selfAssign>> ELSE <<>>)
        \o (IF ~h.es5Mode /\ ~hasExportsAssignment(file.statements) THEN <<exportsObj>> ELSE <<>>)

computeInsertionIdx(out) ==
    IF Len(out) > 0 /\ out[1].kind = "NotEmittedStatement" THEN 1 ELSE 0

\* stmts.splice(at, 0, ...items)
Splice(out, at, items) == SubSeq(out, 1, at) \o items \o SubSeq(out, at + 1, Len(out))

(***************************************************************************)
(* Input statements: the shapes TypeScript's CommonJS emit produces, and   *)
(* near misses of them                                                     *)
(***************************************************************************)
RequireCall(spec) == Call(Id("require"), <<Str(spec)>>)

\* a leading comment, already turned into a placeholder by transformer_util
CommentPlaceholder == createNotEmittedStatement([kind |-> "SourceFile"])

UseStrictStmt == ExprStmt(Str("use strict"))

EsModuleStmt ==
    ExprStmt(Call(PropAccess(Id("Object"), "defineProperty"),
                  <<Id("exports"), Str("__esModule"),
                    ObjLit(<<PropAssign("value", [kind |-> "TrueKeyword"])>>)>>))

\* module.exports = require('./a');
ModuleExportsStmt ==
    ExprStmt(Binary(PropAccess(Id("module"), "exports"), "EqualsToken", RequireCall("./a")))

\* exports = x;
ExportsStmt == ExprStmt(Binary(Id("exports"), "EqualsToken", Id("x")))

RequireStmt(spec) == ExprStmt(RequireCall(spec))

\* __exportStar(require('./b'), exports);
ExportStarStmt == ExprStmt(Call(Id("__exportStar"), <<RequireCall("./b"), Id("exports")>>))

\* __export();
ExportNoArgStmt == ExprStmt(Call(Id("__export"), <<>>))

\* __export(x);
ExportIdentArgStmt == ExprStmt(Call(Id("__export"), <<Id("x")>>))

\* require('./a', x);
RequireTwoArgsStmt == ExprStmt(Call(Id("require"), <<Str("./a"), Id("x")>>))

\* require(x);
RequireIdentArgStmt == ExprStmt(Call(Id("require"), <<Id("x")>>))

\* m.require('./a');
MethodRequireStmt == ExprStmt(Call(PropAccess(Id("m"), "require"), <<Str("./a")>>))

\* foo();
FooCallStmt == ExprStmt(Call(Id("foo"), <<>>))

\* var x = require('./a');
VarRequireStmt == VarStmt(<<VarDecl(Id("x"), RequireCall("./a"))>>)

\* var p = require('./a'), q = require('./b');
CompoundVarStmt ==
    VarStmt(<<VarDecl(Id("p"), RequireCall("./a")), VarDecl(Id("q"), RequireCall("./b"))>>)

TopLevelStatements ==
    { CommentPlaceholder, UseStrictStmt, EsModuleStmt, ModuleExportsStmt, ExportsStmt,
      RequireStmt("./a"), RequireStmt("goog:a"), RequireStmt("tslib"), RequireStmt(""),
      ExportStarStmt, ExportNoArgStmt, ExportIdentArgStmt, RequireTwoArgsStmt,
      RequireIdentArgStmt, MethodRequireStmt, FooCallStmt, VarRequireStmt, CompoundVarStmt }

Units == UNION {[1..n -> TopLevelStatements] : n \in 0..MaxStmts}

Hosts == [isJsTranspilation : BOOLEAN, es5Mode : BOOLEAN, convertIndexImportShorthand : BOOLEAN]

(***************************************************************************)
(* The transformer (sf) => {...}, googmodule.ts lines 255-469              *)
(***************************************************************************)
Init ==
    /\ host \in Hosts
    /\ pc = "idle"
    /\ sf = [fileName |-> FileName, statements |-> <<>>]
    /\ idx = 1
    /\ stmts = <<>>
    /\ moduleVarCounter = 1
    /\ namespaceToModuleVarName = EmptyMap
    /\ providedCalls = <<>>
    /\ referencedCalls = <<>>
    /\ headerStmts = <<>>
    /\ insertionIdx = 0
    /\ hookPc = "off"
    /\ hookIn = Undefined
    /\ hookOut = Undefined

\* Variant: the counter and the binding table outlive the unit
createUnitState_Shared ==
    UNCHANGED <<moduleVarCounter, namespaceToModuleVarName>>

\* lines 256 and 269: the counter and the binding table are locals of the
\* call (sf) => {...}, created anew by every call
createUnitState ==
    /\ moduleVarCounter' = 1
    /\ namespaceToModuleVarName' = EmptyMap

\* lines 255-269 and 396-411, for the statements u of the unit: the per-unit
\* state is created and the provided namespace is registered
BeginUnit(u) ==
    /\ sf' = [fileName |-> FileName, statements |-> u]
    /\ createUnitState
    /\ providedCalls' = Append(providedCalls, <<FileName, pathToModuleName("", FileName)>>)
    /\ stmts' = <<>>
    /\ idx' = 1
    /\ pc' = IF host.isJsTranspilation THEN "transpile" ELSE "visit"
    /\ UNCHANGED <<host, referencedCalls, headerStmts, insertionIdx, hookVars>>

\* the transformer is called with a unit
StartUnit ==
    /\ pc = "idle"
    /\ \E u \in Units : BeginUnit(u)

\* lines 402-406: one iteration of the loop of the JS transpilation mode
RewriteRequireTslib ==
    /\ pc = "transpile"
    /\ idx <= Len(sf.statements)
    /\ stmts' = Append(stmts, maybeRewriteRequireTslib(sf.statements[idx]))
    /\ idx' = idx + 1
    /\ UNCHANGED <<host, pc, sf, moduleVarCounter, namespaceToModuleVarName, providedCalls,
                   referencedCalls, headerStmts, insertionIdx, hookVars>>

\* line 407
ReturnTranspiled ==
    /\ pc = "transpile"
    /\ idx > Len(sf.statements)
    /\ pc' = "done"
    /\ UNCHANGED <<host, sf, idx, stmts, moduleVarCounter, namespaceToModuleVarName,
                   providedCalls, referencedCalls, headerStmts, insertionIdx, hookVars>>

\* the effect of one visitTopLevelStatement call with result r
ApplyVisit(r) ==
    /\ pc' = IF r.threw THEN "threw" ELSE "visit"
    /\ stmts' = stmts \o r.out
    /\ moduleVarCounter' = r.counter
    /\ namespaceToModuleVarName' = r.map
    /\ referencedCalls' = referencedCalls \o r.refs
    /\ idx' = IF r.threw THEN idx ELSE idx + 1

\* lines 412-414: one iteration of the loop calling visitTopLevelStatement;
\* a TypeError raised inside it aborts the rewrite of the unit
VisitTopLevelStatement ==
    /\ pc = "visit"
    /\ idx <= Len(sf.statements)
    /\ ApplyVisit(visitTopLevelStatement(sf.statements[idx], moduleVarCounter,
                                         namespaceToModuleVarName, host, sf.fileName))
    /\ UNCHANGED <<host, sf, providedCalls, headerStmts, insertionIdx, hookVars>>

\* lines 466-468, for the prologue header and the insertion index at
SpliceHeader(header, at) ==
    /\ headerStmts' = header
    /\ insertionIdx' = at
    /\ stmts' = Splice(stmts, at, header)

\* lines 416-468: the prologue is built and spliced into the output
InsertHeader ==
    /\ pc = "visit"
    /\ idx > Len(sf.statements)
    /\ SpliceHeader(createHeaderStmts(host, sf), computeInsertionIdx(stmts))
    /\ pc' = "done"
    /\ UNCHANGED <<host, sf, idx, moduleVarCounter, namespaceToModuleVarName,
                   providedCalls, referencedCalls, hookVars>>

Next ==
    \/ StartUnit
    \/ RewriteRequireTslib
    \/ ReturnTranspiled
    \/ VisitTopLevelStatement
    \/ InsertHeader

Spec == Init /\ [][Next]_vars

(***************************************************************************)
(* The same transformer called with one unit after another, googmodule.ts  *)
(* lines 255-469: the manifest outlives the units, the counter and the     *)
(* binding table do not                                                    *)
(***************************************************************************)
MaxUnits == 2

MaxUnitLen == 2

ExportStarOfA == ExprStmt(Call(Id("__exportStar"), <<RequireCall("./a"), Id("exports")>>))

SequenceStatements ==
    { RequireStmt("./a"), RequireStmt("goog:a"), ExportStarStmt, ExportStarOfA, FooCallStmt }

SequenceUnits == UNION {[1..n -> SequenceStatements] : n \in 0..MaxUnitLen}

\* the transformer is called with the first unit, or with the next one
\* after it returned the previous
StartNextUnit ==
    /\ pc \in {"idle", "done"}
    /\ Len(providedCalls) < MaxUnits
    /\ \E u \in SequenceUnits : BeginUnit(u)

NextUnits ==
    \/ StartNextUnit
    \/ RewriteRequireTslib
    \/ ReturnTranspiled
    \/ VisitTopLevelStatement
    \/ InsertHeader

SpecUnits == Init /\ [][NextUnits]_vars

(***************************************************************************)
(* The substitution hook, googmodule.ts lines 215-253                      *)
(***************************************************************************)
MaxDecls == 2

\* ts.getOriginalNode(node): follows the original back-references to the end
RECURSIVE getOriginalNode(_)
getOriginalNode(node) == IF Has(node, "original") THEN getOriginalNode(node.original) ELSE node

\* the truthiness of a string|null value
Truthy(r) == ~r.isNull /\ r.text # ""

\* node is what previousOnSubstituteNode returned, sym what
\* typeChecker.getSymbolAtLocation(node.expression) answers
onSubstituteNode(node, sym) ==
    IF node.kind # "PropertyAccessExpression" THEN node
    ELSE IF node.name.text # "default" THEN node
    ELSE IF node.expression.kind # "Identifier" THEN node
    ELSE LET orig == getOriginalNode(node.expression)
             substitute(importExportDecl) ==
                 IF Truthy(extractGoogNamespaceImport(importExportDecl.moduleSpecifier.text))
                 THEN node.expression
                 ELSE node
         IN  IF orig.kind = "ImportDeclaration" \/ orig.kind = "ExportDeclaration"
             THEN substitute(orig)
             ELSE IF sym = Undefined THEN node
             ELSE IF ~Has(sym, "declarations") THEN node
             ELSE IF Len(sym.declarations) = 0 THEN node
             ELSE LET decl == sym.declarations[1] IN
                  IF /\ Has(decl, "parent")
                     /\ Has(decl.parent, "parent")
                     /\ decl.parent.parent.kind = "ImportDeclaration"
                  THEN substitute(decl.parent.parent)
                  ELSE node

ModuleSpecifiers == {"goog:a", "goog:", "./a", "x/goog:a"}

ImportDecl(spec) == [kind |-> "ImportDeclaration", moduleSpecifier |-> Str(spec)]

ExportDecl(spec) == [kind |-> "ExportDeclaration", moduleSpecifier |-> Str(spec)]

\* identifiers: written by the user, generated for an import or export
\* declaration, a clone of a generated one, a clone of a user-written one
BaseIdentifiers ==
    {Id("foo")}
        \cup {WithOriginal(Id("foo_1"), ImportDecl(spec)) : spec \in ModuleSpecifiers}
        \cup {WithOriginal(Id("foo_1"), ExportDecl(spec)) : spec \in ModuleSpecifiers}
        \cup {WithOriginal(Id("foo_1"), WithOriginal(Id("foo_1"), ImportDecl(spec))) :
                  spec \in ModuleSpecifiers}
        \cup {WithOriginal(Id("foo"), Id("foo"))}

BaseExpressions == BaseIdentifiers \cup {Call(Id("foo"), <<>>), [kind |-> "ThisKeyword"]}

HookNodes ==
    {Id("foo")}
        \cup {PropAccess(e, n) : e \in BaseExpressions, n \in {"default", "other"}}

\* declarations a symbol can have: import * as foo, import foo, import {foo},
\* var foo, and a declaration without parent
Declarations ==
    {[kind |-> "NamespaceImport",
      parent |-> [kind |-> "ImportClause", parent |-> ImportDecl(spec)]] :
         spec \in ModuleSpecifiers}
        \cup {[kind |-> "ImportClause",
               parent |-> [kind |-> "ImportDeclaration", moduleSpecifier |-> Str("goog:a"),
                           parent |-> [kind |-> "SourceFile"]]],
              [kind |-> "ImportSpecifier",
               parent |-> [kind |-> "NamedImports",
                           parent |-> [kind |-> "ImportClause",
                                       parent |-> ImportDecl("goog:a")]]],
              [kind |-> "VariableDeclaration",
               parent |-> [kind |-> "VariableDeclarationList",
                           parent |-> [kind |-> "VariableStatement"]]],
              [kind |-> "SourceFile"]}

Symbols ==
    {Undefined, [name |-> "foo"]}
        \cup {[name |-> "foo", declarations |-> ds] :
                  ds \in UNION {[1..n -> Declarations] : n \in 0..MaxDecls}}

InitHook ==
    /\ host \in Hosts
    /\ pc = "idle"
    /\ sf = [fileName |-> FileName, statements |-> <<>>]
    /\ idx = 1
    /\ stmts = <<>>
    /\ moduleVarCounter = 1
    /\ namespaceToModuleVarName = EmptyMap
    /\ providedCalls = <<>>
    /\ referencedCalls = <<>>
    /\ headerStmts = <<>>
    /\ insertionIdx = 0
    /\ hookPc = "call"
    /\ hookIn \in [node : HookNodes, symbol : Symbols]
    /\ hookOut = Undefined

\* one call of context.onSubstituteNode
OnSubstituteNode ==
    /\ hookPc = "call"
    /\ hookOut' = onSubstituteNode(hookIn.node, hookIn.symbol)
    /\ hookPc' = "returned"
    /\ UNCHANGED <<unitVars, hookIn>>

NextHook == OnSubstituteNode

SpecHook == InitHook /\ [][NextHook]_vars

(***************************************************************************)
(* Vocabulary of the properties: statement shapes as the specification     *)
(* names them, and the layout of the rewritten body                        *)
(***************************************************************************)
NormalDone == pc = "done" /\ ~host.isJsTranspilation

TranspiledDone == pc = "done" /\ host.isJsTranspilation

\* the output with the prologue taken out again
Body ==
    SubSeq(stmts, 1, insertionIdx)
        \o SubSeq(stmts, insertionIdx + Len(headerStmts) + 1, Len(stmts))

\* require('s') with one non-empty string literal
IsRequireOf(e) ==
    /\ e.kind = "CallExpression"
    /\ e.expression = Id("require")
    /\ Len(e.arguments) = 1
    /\ e.arguments[1].kind = "StringLiteral"
    /\ e.arguments[1].text # ""

IsBareImport(s) == s.kind = "ExpressionStatement" /\ IsRequireOf(s.expression)

IsStarImport(s) ==
    /\ s.kind = "ExpressionStatement"
    /\ s.expression.kind = "CallExpression"
    /\ s.expression.expression \in {Id("__export"), Id("__exportStar")}
    /\ Len(s.expression.arguments) >= 1
    /\ IsRequireOf(s.expression.arguments[1])

IsAliasedImport(s) ==
    /\ s.kind = "VariableStatement"
    /\ Len(s.declarationList.declarations) = 1
    /\ s.declarationList.declarations[1].name.kind = "Identifier"
    /\ Has(s.declarationList.declarations[1], "initializer")
    /\ IsRequireOf(s.declarationList.declarations[1].initializer)

IsImport(s) == IsBareImport(s) \/ IsStarImport(s) \/ IsAliasedImport(s)

ImportSpecifier(s) ==
    IF IsBareImport(s) THEN s.expression.arguments[1].text
    ELSE IF IsStarImport(s) THEN s.expression.arguments[1].arguments[1].text
    ELSE s.declarationList.declarations[1].initializer.arguments[1].text

ImportNamespace(s) == importPathToGoogNamespace(host, sf.fileName, ImportSpecifier(s)).text

IsPragma(s) == s = ExprStmt(Str("use strict"))

IsMarker(s) ==
    s = ExprStmt(Call(PropAccess(Id("Object"), "defineProperty"),
                      <<Id("exports"), Str("__esModule"),
                        ObjLit(<<PropAssign("value", [kind |-> "TrueKeyword"])>>)>>))

IsAssignmentTo(s, target) ==
    /\ s.kind = "ExpressionStatement"
    /\ s.expression.kind = "BinaryExpression"
    /\ s.expression.operatorToken = "EqualsToken"
    /\ s.expression.left = target

IsModuleExportsAssign(s) == IsAssignmentTo(s, PropAccess(Id("module"), "exports"))

IsBareExportsAssign(s) == IsAssignmentTo(s, Id("exports"))

IsPlaceholder(s) == s.kind = "NotEmittedStatement"

\* number of output statements an input statement stands for
OutCount(s) == IF IsStarImport(s) THEN 2 ELSE 1

RECURSIVE OffsetOf(_, _)
OffsetOf(ss, i) == IF i <= 1 THEN 0 ELSE OffsetOf(ss, i - 1) + OutCount(ss[i - 1])

ExpectedLen == OffsetOf(sf.statements, Len(sf.statements) + 1)

\* the first output statement standing for input statement i
OutOf(i) == Body[OffsetOf(sf.statements, i) + 1]

IsSingleVarDecl(s) ==
    s.kind = "VariableStatement" /\ Len(s.declarationList.declarations) = 1

DeclaredName(s) == s.declarationList.declarations[1].name

InitializerOf(s) == s.declarationList.declarations[1].initializer

IsGoogCall(e, method, text) ==
    /\ e.kind = "CallExpression"
    /\ e.expression = PropAccess(Id("goog"), method)
    /\ Len(e.arguments) = 1
    /\ e.arguments[1].kind = "StringLiteral"
    /\ e.arguments[1].text = text

IsGoogRequireDecl(s, ns) == IsSingleVarDecl(s) /\ IsGoogCall(InitializerOf(s), "require", ns)

GoogRequireCount(ns) == Cardinality({j \in 1..Len(stmts) : IsGoogRequireDecl(stmts[j], ns)})

AllGoogRequires ==
    {j \in 1..Len(stmts) :
        /\ IsSingleVarDecl(stmts[j])
        /\ InitializerOf(stmts[j]).kind = "CallExpression"
        /\ InitializerOf(stmts[j]).expression = PropAccess(Id("goog"), "require")}

ImportIdx == {i \in 1..Len(sf.statements) : IsImport(sf.statements[i])}

FirstImportOf(ns) ==
    CHOOSE i \in ImportIdx :
        /\ ImportNamespace(sf.statements[i]) = ns
        /\ \A j \in ImportIdx : ImportNamespace(sf.statements[j]) = ns => i <= j

LeadingPlaceholders(ss) ==
    Cardinality({k \in 1..Len(ss) : \A j \in 1..k : IsPlaceholder(ss[j])})

(***************************************************************************)
(* C1                                                                      *)
(***************************************************************************)
\* C1: in normal mode, among the import statements of a unit that name the
\* same namespace, the first one emits the single goog.require(ns) of the
\* output and every later one emits a declaration whose initializer is the
\* identifier the first one declared.
C1_OneRequirePerNamespace ==
    NormalDone =>
        /\ Len(Body) = ExpectedLen
        /\ \A i \in ImportIdx :
            LET ns    == ImportNamespace(sf.statements[i])
                first == FirstImportOf(ns)
            IN  /\ GoogRequireCount(ns) = 1
                /\ IsGoogRequireDecl(OutOf(first), ns)
                /\ i # first =>
                       /\ IsSingleVarDecl(OutOf(i))
                       /\ InitializerOf(OutOf(i)).kind = "Identifier"
                       /\ InitializerOf(OutOf(i)) = DeclaredName(OutOf(first))

\* a namespace reached through a goog: specifier and through the host, the
\* later import emitted as an alias
C1_Witness ==
    /\ NormalDone
    /\ \E i, j \in ImportIdx :
        /\ i < j
        /\ ImportNamespace(sf.statements[i]) = ImportNamespace(sf.statements[j])
        /\ StartsWith(ImportSpecifier(sf.statements[i]), "goog:")
           # StartsWith(ImportSpecifier(sf.statements[j]), "goog:")
        /\ InitializerOf(OutOf(j)).kind = "Identifier"

(***************************************************************************)
(* C2                                                                      *)
(***************************************************************************)
\* C2: in normal mode, when the rewritten body begins with k >= 1
\* placeholders followed by code, the prologue sits right after all k of
\* them.
C2_PrologueAfterAllPlaceholders ==
    NormalDone =>
        LET k == LeadingPlaceholders(Body)
        IN  (k >= 1 /\ k < Len(Body)) =>
                /\ insertionIdx = k
                /\ SubSeq(stmts, k + 1, k + Len(headerStmts)) = headerStmts

(***************************************************************************)
(* C3                                                                      *)
(***************************************************************************)
\* C3: rewriting a unit never raises, whatever the shape of its top-level
\* statements.
C3_NeverRaises == pc # "threw"

(***************************************************************************)
(* C4                                                                      *)
(***************************************************************************)
\* C4 as stated: the number of addReferencedModule calls made for a unit
\* equals the number of goog.require calls emitted for it.
C4_OneCallPerRequire ==
    NormalDone => Len(referencedCalls) = Cardinality(AllGoogRequires)

RECURSIVE ImportNamespaces(_)
ImportNamespaces(ss) ==
    IF ss = <<>> THEN <<>>
    ELSE (IF IsImport(Head(ss)) THEN << <<sf.fileName, ImportNamespace(Head(ss))>> >> ELSE <<>>)
             \o ImportNamespaces(Tail(ss))

\* C4 amended: addReferencedModule is called once per recognized import
\* statement, in statement order, with the namespace of that import; a
\* namespace imported N times is registered N times.
C4_OneCallPerImport ==
    NormalDone => referencedCalls = ImportNamespaces(sf.statements)

\* a namespace imported twice, registered twice, required once
C4_Witness ==
    /\ NormalDone
    /\ Len(referencedCalls) = 2
    /\ referencedCalls[1] = referencedCalls[2]
    /\ Cardinality(AllGoogRequires) = 1

(***************************************************************************)
(* C5                                                                      *)
(***************************************************************************)
\* C5: in normal mode the body without the prologue is the in-order
\* concatenation of the replacements: one statement per input statement,
\* two consecutive ones (declaration, then wrapper call) for a star
\* re-export of an import, and the input statement itself where it is not
\* recognized.
C5_OrderPreserved ==
    NormalDone =>
        /\ Len(Body) = ExpectedLen
        /\ \A i \in 1..Len(sf.statements) :
            LET s == sf.statements[i]
                o == OffsetOf(sf.statements, i)
            IN  IF IsStarImport(s)
                THEN /\ IsSingleVarDecl(Body[o + 1])
                     /\ Prop(Body[o + 1], "original") = s
                     /\ Body[o + 2].kind = "ExpressionStatement"
                     /\ Body[o + 2].expression.kind = "CallExpression"
                     /\ Body[o + 2].expression.expression = s.expression.expression
                     /\ Body[o + 2].expression.arguments[1] = DeclaredName(Body[o + 1])
                ELSE IF \/ IsPragma(s) \/ IsMarker(s) \/ IsModuleExportsAssign(s)
                        \/ IsBareImport(s) \/ IsAliasedImport(s)
                THEN Body[o + 1] # s /\ Prop(Body[o + 1], "original") = s
                ELSE Body[o + 1] = s

\* a star re-export between two other statements
C5_Witness ==
    /\ NormalDone
    /\ Len(sf.statements) = 3
    /\ IsStarImport(sf.statements[2])
    /\ ~IsImport(sf.statements[3]) /\ Body[4] = sf.statements[3]
    /\ Len(Body) = 4

(***************************************************************************)
(* C6                                                                      *)
(***************************************************************************)
IsRequireTslib(s) ==
    /\ s.kind = "ExpressionStatement"
    /\ s.expression.kind = "CallExpression"
    /\ s.expression.expression = Id("require")
    /\ Len(s.expression.arguments) = 1
    /\ s.expression.arguments[1].kind = "StringLiteral"
    /\ s.expression.arguments[1].text = "tslib"

\* C6: in JS transpilation mode the output has the statements of the input,
\* in order and untouched, except that the statement require('tslib')
\* becomes goog.require('tslib'); no prologue and no placeholder appears.
C6_TranspilationKeepsStatements ==
    TranspiledDone =>
        /\ Len(stmts) = Len(sf.statements)
        /\ headerStmts = <<>>
        /\ \A i \in 1..Len(sf.statements) :
            IF IsRequireTslib(sf.statements[i])
            THEN /\ stmts[i].kind = "ExpressionStatement"
                 /\ IsGoogCall(stmts[i].expression, "require", "tslib")
            ELSE stmts[i] = sf.statements[i]

\* a unit with a pragma, another require and require('tslib')
C6_Witness ==
    /\ TranspiledDone
    /\ \E i, j, k \in 1..Len(sf.statements) :
        /\ IsRequireTslib(sf.statements[i])
        /\ IsPragma(sf.statements[j])
        /\ IsImport(sf.statements[k]) /\ ~IsRequireTslib(sf.statements[k])

(***************************************************************************)
(* C7                                                                      *)
(***************************************************************************)
IsGoogModuleStmt(s, ns) ==
    s.kind = "ExpressionStatement" /\ IsGoogCall(s.expression, "module", ns)

\* var module = module || {id: '<id>'};
IsModuleIdDecl(s, id) ==
    /\ IsSingleVarDecl(s)
    /\ DeclaredName(s) = Id("module")
    /\ InitializerOf(s).kind = "BinaryExpression"
    /\ InitializerOf(s).left = Id("module")
    /\ InitializerOf(s).operatorToken = "BarBarToken"
    /\ InitializerOf(s).right.kind = "ObjectLiteralExpression"
    /\ Len(InitializerOf(s).right.properties) = 1
    /\ InitializerOf(s).right.properties[1].name = Id("id")
    /\ InitializerOf(s).right.properties[1].initializer.kind = "StringLiteral"
    /\ InitializerOf(s).right.properties[1].initializer.text = id

IsSelfAssign(s) == s = ExprStmt(Binary(Id("module"), "EqualsToken", Id("module")))

IsEmptyExports(s) == s = ExprStmt(Binary(Id("exports"), "EqualsToken", ObjLit(<<>>)))

UnitAssignsExports ==
    \E i \in 1..Len(sf.statements) :
        IsModuleExportsAssign(sf.statements[i]) \/ IsBareExportsAssign(sf.statements[i])

\* C7: in normal mode the prologue is goog.module(<own namespace>), then
\* var module = module || {id: <identity>}, then module = module iff es5Mode
\* is false, then exports = {} iff es5Mode is false and the unit has no
\* top-level exports = X or module.exports = X.
C7_PrologueShape ==
    NormalDone =>
        LET rich        == ~host.es5Mode
            withExports == rich /\ ~UnitAssignsExports
            h           == headerStmts
        IN  /\ Len(h) = 2 + (IF rich THEN 1 ELSE 0) + (IF withExports THEN 1 ELSE 0)
            /\ IsGoogModuleStmt(h[1], pathToModuleName("", sf.fileName))
            /\ IsModuleIdDecl(h[2], fileNameToModuleId(sf.fileName))
            /\ rich => IsSelfAssign(h[3])
            /\ withExports => IsEmptyExports(h[4])
            /\ SubSeq(stmts, insertionIdx + 1, insertionIdx + Len(h)) = h

\* the richer emit level, a unit that assigns exports = X and nothing to
\* module.exports: three prologue statements
C7_Witness ==
    /\ NormalDone
    /\ ~host.es5Mode
    /\ \E i \in 1..Len(sf.statements) : IsBareExportsAssign(sf.statements[i])
    /\ \A i \in 1..Len(sf.statements) : ~IsModuleExportsAssign(sf.statements[i])
    /\ Len(headerStmts) = 3

(***************************************************************************)
(* C8                                                                      *)
(***************************************************************************)
\* C8: in normal mode module.exports = X becomes exports = X with X itself
\* as right-hand side, and exports = X is copied unchanged.
C8_ExportsAssignment ==
    NormalDone =>
        /\ Len(Body) = ExpectedLen
        /\ \A i \in 1..Len(sf.statements) :
            LET s == sf.statements[i] IN
            /\ IsModuleExportsAssign(s) =>
                   /\ IsBareExportsAssign(OutOf(i))
                   /\ OutOf(i).expression.right = s.expression.right
            /\ IsBareExportsAssign(s) => OutOf(i) = s

\* module.exports = require(...) and exports = x in the same unit
C8_Witness ==
    /\ NormalDone
    /\ \E i, j \in 1..Len(sf.statements) :
        /\ IsModuleExportsAssign(sf.statements[i])
        /\ IsRequireOf(sf.statements[i].expression.right)
        /\ IsRequireOf(OutOf(i).expression.right)
        /\ IsBareExportsAssign(sf.statements[j])

(***************************************************************************)
(* C10                                                                     *)
(***************************************************************************)
IsCallStatement(s) ==
    s.kind = "ExpressionStatement" /\ s.expression.kind = "CallExpression"

\* C10 as stated: the counter advances only when a side-effect import,
\* bare or wrapped in a star re-export, names a namespace that is not bound
\* yet.
C10_AdvanceOnlyForNewNamespace ==
    [][moduleVarCounter' > moduleVarCounter =>
          /\ pc = "visit"
          /\ idx <= Len(sf.statements)
          /\ IsBareImport(sf.statements[idx]) \/ IsStarImport(sf.statements[idx])
          /\ ImportNamespace(sf.statements[idx]) \notin DOMAIN namespaceToModuleVarName]_vars

\* C10 amended: the counter advances, by one, exactly when the statement
\* visited is an expression statement whose expression is a call and which
\* is not the __esModule marker, whether or not the call is an import and
\* whether or not its namespace is bound already; it does not advance for
\* an aliased import declaration nor for any other statement.
C10_AdvanceForEveryCallStatement ==
    [][/\ moduleVarCounter' > moduleVarCounter <=>
              /\ pc = "visit"
              /\ idx <= Len(sf.statements)
              /\ IsCallStatement(sf.statements[idx])
              /\ ~IsMarker(sf.statements[idx])
       /\ moduleVarCounter' > moduleVarCounter => moduleVarCounter' = moduleVarCounter + 1]_vars

\* two imports of one namespace and a call that is no import: three names
\* used up
C10_Witness ==
    /\ NormalDone
    /\ Len(sf.statements) = 3
    /\ IsBareImport(sf.statements[1])
    /\ IsBareImport(sf.statements[2])
    /\ ImportNamespace(sf.statements[1]) = ImportNamespace(sf.statements[2])
    /\ IsCallStatement(sf.statements[3]) /\ ~IsImport(sf.statements[3])
    /\ moduleVarCounter = 4

(***************************************************************************)
(* C9                                                                      *)
(***************************************************************************)
\* the import or export declaration traced for the base identifier: the end
\* of its original-node chain, otherwise the grandparent of the first
\* declaration of its symbol, when that is an import declaration
TracedDeclarations ==
    LET base == hookIn.node.expression
        sym  == hookIn.symbol
        orig == getOriginalNode(base)
    IN  IF orig.kind \in {"ImportDeclaration", "ExportDeclaration"} THEN {orig}
        ELSE IF sym = Undefined THEN {}
        ELSE IF ~Has(sym, "declarations") THEN {}
        ELSE IF sym.declarations = <<>> THEN {}
        ELSE {d \in {Prop(Prop(sym.declarations[1], "parent"), "parent")} :
                  d.kind = "ImportDeclaration"}

IsIdentDefaultAccess(n) ==
    /\ n.kind = "PropertyAccessExpression"
    /\ n.name = Id("default")
    /\ n.expression.kind = "Identifier"

\* C9: the hook returns <ident> for <ident>.default exactly when a
\* declaration is traced for the identifier and its module specifier begins
\* with goog:, and returns the node unchanged in every other case.
C9_StripsDefaultIffGoogPrefix ==
    hookPc = "returned" =>
        IF /\ IsIdentDefaultAccess(hookIn.node)
           /\ \E d \in TracedDeclarations : StartsWith(d.moduleSpecifier.text, "goog:")
        THEN hookOut = hookIn.node.expression
        ELSE hookOut = hookIn.node

(***************************************************************************)
(* C11                                                                     *)
(***************************************************************************)
RECURSIVE VisitFrom(_, _, _, _, _, _, _)
RECURSIVE VisitStep(_, _, _, _, _, _)
\* the statements pushed for ss[i..], by a transformer whose counter and
\* binding table are as given
VisitFrom(ss, i, out, counter, map, h, fileName) ==
    IF i > Len(ss) THEN out
    ELSE VisitStep(ss, i, out, visitTopLevelStatement(ss[i], counter, map, h, fileName),
                   h, fileName)

VisitStep(ss, i, out, r, h, fileName) ==
    VisitFrom(ss, i + 1, out \o r.out, r.counter, r.map, h, fileName)

WithPrologue(out, header) == Splice(out, computeInsertionIdx(out), header)

\* the output of the current unit when it is the only unit ever rewritten
RewrittenAlone ==
    WithPrologue(VisitFrom(sf.statements, 1, <<>>, 1, EmptyMap, host, sf.fileName),
                 createHeaderStmts(host, sf))

SyntheticRange == 1..(MaxUnits * MaxUnitLen + 1)

IsSynthetic(id) ==
    id.kind = "Identifier" /\ \E n \in SyntheticRange : id.text = nextModuleVar(n).name

SyntheticNumber(id) == CHOOSE n \in SyntheticRange : id.text = nextModuleVar(n).name

\* the output statements that declare a synthetic identifier
SyntheticDecls ==
    {j \in 1..Len(stmts) : IsSingleVarDecl(stmts[j]) /\ IsSynthetic(DeclaredName(stmts[j]))}

\* the addReferencedModule calls made before the current unit began
EarlierReferences ==
    SubSeq(referencedCalls, 1, Len(referencedCalls) - Cardinality(ImportIdx))

\* C11: whatever units the transformer rewrote before, a unit begins with
\* the counter at 1 and an empty binding table; the synthetic identifiers
\* its output declares are strictly increasing in statement order (hence
\* pairwise distinct); its output equals the output it has when rewritten
\* alone; every namespace it imports has its own goog.require in its output.
C11_UnitStateNotShared ==
    /\ (pc \in {"visit", "transpile"} /\ idx = 1) =>
           moduleVarCounter = 1 /\ namespaceToModuleVarName = EmptyMap
    /\ NormalDone =>
           /\ stmts = RewrittenAlone
           /\ \A i, j \in SyntheticDecls :
                  i < j => SyntheticNumber(DeclaredName(stmts[i]))
                               < SyntheticNumber(DeclaredName(stmts[j]))
           /\ \A i \in ImportIdx : GoogRequireCount(ImportNamespace(sf.statements[i])) = 1
    /\ TranspiledDone =>
           stmts = [i \in 1..Len(sf.statements) |-> maybeRewriteRequireTslib(sf.statements[i])]

\* a second unit, rewritten in normal mode, that declares two synthetic
\* identifiers and requires a namespace the unit before it referenced
C11_Witness ==
    /\ NormalDone
    /\ Len(providedCalls) = MaxUnits
    /\ Cardinality(SyntheticDecls) >= 2
    /\ \E i \in ImportIdx : \E k \in 1..Len(EarlierReferences) :
           /\ EarlierReferences[k][2] = ImportNamespace(sf.statements[i])
           /\ IsGoogRequireDecl(OutOf(i), ImportNamespace(sf.statements[i]))

(***************************************************************************)
(* C12                                                                     *)
(***************************************************************************)
\* where a statement of the body sits in the output, prologue included
InOutput(b) == IF b <= insertionIdx THEN b ELSE b + Len(headerStmts)

\* the position in the output of the declaration emitted for input statement i
PosOf(i) == InOutput(OffsetOf(sf.statements, i) + 1)

\* the imports of the unit that repeat a namespace imported before them
RepeatedImports ==
    {i \in ImportIdx : i # FirstImportOf(ImportNamespace(sf.statements[i]))}

\* stmts[k] declares the identifier y with the initializer goog.require(ns)
DeclaresByGoogRequire(k, y, ns) ==
    IsGoogRequireDecl(stmts[k], ns) /\ DeclaredName(stmts[k]) = y

IsWrapperCallOn(s, wrapper, y) ==
    /\ s.kind = "ExpressionStatement"
    /\ s.expression.kind = "CallExpression"
    /\ s.expression.expression = wrapper
    /\ Len(s.expression.arguments) >= 1
    /\ s.expression.arguments[1] = y

\* C12: in the output of a unit rewritten in normal mode, the alias
\* declaration emitted for a repeated namespace refers to an identifier that
\* a statement earlier in the output declares with the initializer
\* goog.require(ns); the binding table entry of a namespace is the
\* identifier its first import declared; and the wrapper call emitted for a
\* star re-export directly follows the declaration of the identifier that is
\* its first argument.
C12_ReferencesFollowDeclarations ==
    NormalDone =>
        /\ Len(Body) = ExpectedLen
        /\ \A i \in RepeatedImports :
               /\ IsSingleVarDecl(stmts[PosOf(i)])
               /\ InitializerOf(stmts[PosOf(i)]).kind = "Identifier"
               /\ \E k \in 1..(PosOf(i) - 1) :
                      DeclaresByGoogRequire(k, InitializerOf(stmts[PosOf(i)]),
                                            ImportNamespace(sf.statements[i]))
        /\ \A i \in ImportIdx :
               /\ ImportNamespace(sf.statements[i]) \in DOMAIN namespaceToModuleVarName
               /\ namespaceToModuleVarName[ImportNamespace(sf.statements[i])] =
                      DeclaredName(OutOf(FirstImportOf(ImportNamespace(sf.statements[i]))))
        /\ \A i \in ImportIdx :
               IsStarImport(sf.statements[i]) =>
                   /\ IsSingleVarDecl(stmts[PosOf(i)])
                   /\ PosOf(i) + 1 <= Len(stmts)
                   /\ IsWrapperCallOn(stmts[PosOf(i) + 1],
                                      sf.statements[i].expression.expression,
                                      DeclaredName(stmts[PosOf(i)]))

\* a unit beginning with a placeholder, so that the prologue is spliced in
\* after it, whose star re-export repeats a namespace: an alias declaration
\* followed by its wrapper call
C12_Witness ==
    /\ NormalDone
    /\ insertionIdx = 1
    /\ \E i \in RepeatedImports :
           /\ IsStarImport(sf.statements[i])
           /\ InitializerOf(stmts[PosOf(i)]).kind = "Identifier"
           /\ stmts[PosOf(i) + 1].kind = "ExpressionStatement"

====
